---- MODULE Spec2Model ----
(***************************************************************************)
(* OctoFit Tracker: user profiles with activity logs, JSON-file storage    *)
(* and the response-shaped operation layer.                                *)
(*                                                                         *)
(* Python values are modelled as follows.  Text is a TLA+ string, an int   *)
(* is an integer.  A datetime is a reading of the clock (an integer);      *)
(* its isoformat() text is the record [iso |-> t].  A UserRole member is   *)
(* one of STUDENT, GYM_TEACHER; its .value is the text "student" or        *)
(* "gym_teacher".  The dict ProfileStorage.profiles keeps insertion order  *)
(* and is the sequence of its values, keyed by the user_id field.          *)
(* A raised exception is the name of its class in the field exc of the     *)
(* result of the operator that models the method, NoExc when none, and     *)
(* str(e) in the field msg.  A message is a tuple of pieces of text.       *)
(* A JSON value that is not an object is the record [scalar |-> v].        *)
(*                                                                         *)
(* Spec is the operation layer on one storage instance and a working file  *)
(* system.  SpecBoot constructs the storage on backing files of any        *)
(* content.  SpecModels calls the entity layer directly: profiles is then  *)
(* the list of the objects in hand and file holds the records to_dict      *)
(* returned.  SpecTwo has a second storage instance, other, on the same    *)
(* backing file.  SpecIO has a backing file that can stop being writable.  *)
(***************************************************************************)
EXTENDS Integers, Sequences, FiniteSets, TLC

VARIABLES profiles, file, clock, last, writable, other

vars == <<profiles, file, clock, last, writable, other>>

\* ------------------------------------------------------------------ bounds
\* datetime.now() is read at most MaxClock times in a behaviour.
MaxClock == 2

\* In SpecModels datetime.now() is read at most MaxModelClock times.
MaxModelClock == 3

\* --------------------------------------------------------- Python values
\* The value None (it is not text: isinstance(None, str) is False).
None == "<None>"

NoExc == "NoExc"

NoMsg == <<>>

Raise(exc, msg) == [exc |-> exc, msg |-> msg, ret |-> None]

Return(ret) == [exc |-> NoExc, msg |-> NoMsg, ret |-> ret]

IsStr(v) == v # None

IsInt(v) == v \in Int

\* dict.get(key): None when the key is missing.
Get(data, key) == IF key \in DOMAIN data THEN data[key] ELSE None

\* A JSON value that is not an object (a number, an array).
Scalar(v) == [scalar |-> v]

\* Only an object (a dict) has the methods items() and get().
IsObject(v) == "scalar" \notin DOMAIN v

\* The least index of a set of indices (the first one a for loop meets).
FirstBad(S) == CHOOSE i \in S : \A j \in S : i <= j

\* --------------------------------------------------------------- models.py
STUDENT == "STUDENT"

GYM_TEACHER == "GYM_TEACHER"

UserRoleMembers == {STUDENT, GYM_TEACHER}

\* UserRole(text): the member whose value is text, ValueError when none is.
UserRole(text) ==
    IF text = "student" THEN Return(STUDENT)
    ELSE IF text = "gym_teacher" THEN Return(GYM_TEACHER)
    ELSE Raise("ValueError", <<"'", text, "' is not a valid UserRole">>)

\* role.value: only a UserRole member has the attribute.
HasValue(role) == role \in UserRoleMembers

\* str(e) of the AttributeError that reading .value of None raises.
NoValueMsg == <<"'NoneType' object has no attribute 'value'">>

RoleValue(role) == IF role = STUDENT THEN "student" ELSE "gym_teacher"

MinAge == 0

MaxAge == 150

\* The age check of UserProfile.__init__ (True when the age is accepted).
AgeOk(age) == IsInt(age) /\ ~(age < MinAge) /\ ~(age > MaxAge)

AgeMsg == <<"Age must be a valid integer between 0 and 150">>

isoformat(t) == [iso |-> t]

fromisoformat(s) == s.iso

\* What datetime.fromisoformat raises: nothing for the text isoformat()
\* produces, TypeError for a value that is not text, ValueError for other
\* text, which is the record [text |-> ...].
FromIsoExc(s) ==
    IF "iso" \in DOMAIN s THEN NoExc
    ELSE IF ~IsObject(s) THEN "TypeError"
    ELSE "ValueError"

FromIsoMsg(s) ==
    IF ~IsObject(s) THEN <<"fromisoformat: argument must be str">>
    ELSE <<"Invalid isoformat string">>

\* ActivityEntry.__init__: the timestamp is datetime.now().
ActivityEntry(activity_type, duration_minutes, calories_burned, notes, now) ==
    [activity_type |-> activity_type,
     duration_minutes |-> duration_minutes,
     calories_burned |-> calories_burned,
     timestamp |-> now,
     notes |-> notes]

ActivityToDict(a) ==
    [activity_type |-> a.activity_type,
     duration_minutes |-> a.duration_minutes,
     calories_burned |-> a.calories_burned,
     timestamp |-> isoformat(a.timestamp),
     notes |-> a.notes]

\* ActivityEntry.from_dict that keeps the timestamp of the constructor.
ActivityFromDict_Regenerated(data, now) ==
    [activity_type |-> Get(data, "activity_type"),
     duration_minutes |-> Get(data, "duration_minutes"),
     calories_burned |-> Get(data, "calories_burned"),
     timestamp |-> now,
     notes |-> IF "notes" \in DOMAIN data THEN data.notes ELSE ""]

\* ActivityEntry.from_dict: notes defaults to "", the timestamp is restored
\* when the record has one and is datetime.now() otherwise.
ActivityFromDict(data, now) ==
    [activity_type |-> Get(data, "activity_type"),
     duration_minutes |-> Get(data, "duration_minutes"),
     calories_burned |-> Get(data, "calories_burned"),
     timestamp |-> IF "timestamp" \in DOMAIN data
                   THEN fromisoformat(data.timestamp) ELSE now,
     notes |-> IF "notes" \in DOMAIN data THEN data.notes ELSE ""]

\* UserProfile.__init__: exc is ValueError when the age or the role text is
\* rejected; a role that is not text is stored as it is.
UserProfile(user_id, name, age, role, now) ==
    IF ~AgeOk(age) THEN Raise("ValueError", AgeMsg)
    ELSE IF IsStr(role) /\ UserRole(role).exc # NoExc
         THEN Raise("ValueError",
                    <<"Invalid role. Must be 'student' or 'gym_teacher', got '",
                      role, "'">>)
    ELSE Return([user_id |-> user_id,
                 name |-> name,
                 age |-> age,
                 role |-> IF IsStr(role) THEN UserRole(role).ret ELSE role,
                 activity_history |-> <<>>,
                 created_at |-> now])

\* UserProfile.add_activity
add_activity(p, activity_type, duration_minutes, calories_burned, notes, now) ==
    [p EXCEPT !.activity_history =
        Append(@, ActivityEntry(activity_type, duration_minutes,
                                calories_burned, notes, now))]

get_total_activities(p) == Len(p.activity_history)

RECURSIVE SumDuration(_)
SumDuration(h) ==
    IF h = <<>> THEN 0 ELSE h[1].duration_minutes + SumDuration(Tail(h))

RECURSIVE SumCalories(_)
SumCalories(h) ==
    IF h = <<>> THEN 0 ELSE h[1].calories_burned + SumCalories(Tail(h))

get_total_activity_time(p) == SumDuration(p.activity_history)

get_total_calories_burned(p) == SumCalories(p.activity_history)

StatsBlock(p) ==
    [total_activities |-> get_total_activities(p),
     total_activity_time_minutes |-> get_total_activity_time(p),
     total_calories_burned |-> get_total_calories_burned(p)]

\* UserProfile.to_dict; defined when HasValue(p.role), AttributeError otherwise.
ToDict(p) ==
    [user_id |-> p.user_id,
     name |-> p.name,
     age |-> p.age,
     role |-> RoleValue(p.role),
     created_at |-> isoformat(p.created_at),
     activity_history |->
        [i \in 1..Len(p.activity_history) |-> ActivityToDict(p.activity_history[i])],
     stats |-> StatsBlock(p)]

\* UserProfile.from_dict that keeps the created_at of the constructor.
FromDict_NewCreatedAt(data, now) ==
    IF ~IsObject(data)
    THEN Raise("AttributeError", <<"'int' object has no attribute 'get'">>)
    ELSE
    LET made == IF "age" \in DOMAIN data
                THEN UserProfile(Get(data, "user_id"), Get(data, "name"),
                                 data.age, Get(data, "role"), now)
                ELSE Raise("ValueError", AgeMsg)
        n == IF "activity_history" \in DOMAIN data
             THEN Len(data.activity_history) ELSE 0
    IN  IF made.exc # NoExc THEN made
        ELSE Return([made.ret EXCEPT
                  !.activity_history =
                      [i \in 1..n |->
                          ActivityFromDict(data.activity_history[i], now)]])

\* The activity records of a profile record whose timestamp
\* datetime.fromisoformat rejects.
BadTimestamp(data, i) ==
    /\ "timestamp" \in DOMAIN data.activity_history[i]
    /\ FromIsoExc(data.activity_history[i].timestamp) # NoExc

\* UserProfile.from_dict: the fields are read with data.get, so a missing
\* one is None (a missing age is not an int: ValueError); the constructor
\* validates the age and the role text; created_at and the history are
\* restored, in that order; stats is not read.
FromDict(data, now) ==
    IF ~IsObject(data)
    THEN Raise("AttributeError", <<"'int' object has no attribute 'get'">>)
    ELSE
    LET made == IF "age" \in DOMAIN data
                THEN UserProfile(Get(data, "user_id"), Get(data, "name"),
                                 data.age, Get(data, "role"), now)
                ELSE Raise("ValueError", AgeMsg)
        n == IF "activity_history" \in DOMAIN data
             THEN Len(data.activity_history) ELSE 0
        bad == {i \in 1..n : BadTimestamp(data, i)}
    IN  IF made.exc # NoExc THEN made
        ELSE IF "created_at" \in DOMAIN data /\ FromIsoExc(data.created_at) # NoExc
        THEN Raise(FromIsoExc(data.created_at), FromIsoMsg(data.created_at))
        ELSE IF bad # {}
        THEN Raise(FromIsoExc(data.activity_history[FirstBad(bad)].timestamp),
                   FromIsoMsg(data.activity_history[FirstBad(bad)].timestamp))
        ELSE Return([made.ret EXCEPT
                  !.created_at = IF "created_at" \in DOMAIN data
                                 THEN fromisoformat(data.created_at) ELSE now,
                  !.activity_history =
                      [i \in 1..n |->
                          ActivityFromDict(data.activity_history[i], now)]])

\* -------------------------------------------------------------- storage.py
\* The backing file: absent, text that is not JSON, or a JSON object whose
\* members are, in order, the encoded profiles.
FileAbsent == [kind |-> "absent", data |-> <<>>]

FileCorrupt == [kind |-> "corrupt", data |-> <<>>]

FileJson(data) == [kind |-> "json", data |-> data]

\* A file that holds JSON which is not an object (an array).
FileArray == [kind |-> "array", data |-> <<>>]

\* user_id in self.profiles
Has(ps, user_id) == \E i \in 1..Len(ps) : ps[i].user_id = user_id

IndexOf(ps, user_id) == CHOOSE i \in 1..Len(ps) : ps[i].user_id = user_id

\* del self.profiles[user_id]
Remove(ps, user_id) ==
    LET k == IndexOf(ps, user_id)
    IN  [i \in 1..(Len(ps) - 1) |-> IF i < k THEN ps[i] ELSE ps[i + 1]]

\* str(e) of the error open(self.storage_file, 'w') raises on a file that
\* cannot be written.
NotWritableMsg == <<"[Errno 13] Permission denied: 'profiles.json'">>

\* save_all that reads the file back and keeps the records of the profiles
\* the instance does not hold.
save_all_Merging(ps, f) ==
    IF \E i \in 1..Len(ps) : ~HasValue(ps[i].role)
    THEN [exc |-> "AttributeError", msg |-> NoValueMsg, file |-> f]
    ELSE IF ~writable
    THEN [exc |-> "PermissionError", msg |-> NotWritableMsg, file |-> f]
    ELSE LET old == IF f.kind = "json" THEN f.data ELSE <<>>
             kept == SelectSeq(old, LAMBDA r : ~Has(ps, r.user_id))
         IN  [exc |-> NoExc, msg |-> NoMsg,
              file |-> FileJson(kept \o [i \in 1..Len(ps) |-> ToDict(ps[i])])]

\* ProfileStorage.save_all: every profile is encoded before the file is
\* opened, so an AttributeError of to_dict leaves the file as it was; so
\* does an open() that fails.
save_all(ps, f) ==
    IF \E i \in 1..Len(ps) : ~HasValue(ps[i].role)
    THEN [exc |-> "AttributeError", msg |-> NoValueMsg, file |-> f]
    ELSE IF ~writable
    THEN [exc |-> "PermissionError", msg |-> NotWritableMsg, file |-> f]
    ELSE [exc |-> NoExc, msg |-> NoMsg,
          file |-> FileJson([i \in 1..Len(ps) |-> ToDict(ps[i])])]

\* ProfileStorage.__init__ with load_all, from the empty dict: exc is what
\* the constructor raises and profiles the dict it leaves.  The except
\* clause of load_all catches JSONDecodeError and ValueError only, and
\* resets the dict; any other exception leaves the constructor.
LoadAll(f, now) ==
    IF f.kind = "absent" THEN [exc |-> NoExc, msg |-> NoMsg, profiles |-> <<>>]
    ELSE IF f.kind = "corrupt" THEN [exc |-> NoExc, msg |-> NoMsg, profiles |-> <<>>]
    ELSE IF f.kind = "array"
    THEN [exc |-> "AttributeError",
          msg |-> <<"'list' object has no attribute 'items'">>,
          profiles |-> <<>>]
    ELSE LET bad == {i \in 1..Len(f.data) : FromDict(f.data[i], now).exc # NoExc}
             first == FromDict(f.data[FirstBad(bad)], now)
         IN  IF bad = {}
             THEN [exc |-> NoExc, msg |-> NoMsg,
                   profiles |-> [i \in 1..Len(f.data) |->
                                    FromDict(f.data[i], now).ret]]
             ELSE IF first.exc = "ValueError"
             THEN [exc |-> NoExc, msg |-> NoMsg, profiles |-> <<>>]
             ELSE [exc |-> first.exc, msg |-> first.msg, profiles |-> <<>>]

\* ProfileStorage.load_all, from the empty dict of __init__: the dict a
\* new instance holds.
load_all(f, now) == LoadAll(f, now).profiles

ExistsMsg(user_id) == <<"Profile with user_id '", user_id, "' already exists">>

\* create_profile without the membership test: the new profile replaces
\* the one stored under the key.
StorageCreate_NoDuplicateTest(ps, f, user_id, name, age, role, now) ==
    LET made == UserProfile(user_id, name, age, role, now)
    IN  IF made.exc # NoExc
        THEN [exc |-> made.exc, msg |-> made.msg, profiles |-> ps, file |-> f]
        ELSE LET ps2 == IF Has(ps, user_id)
                        THEN [ps EXCEPT ![IndexOf(ps, user_id)] = made.ret]
                        ELSE Append(ps, made.ret)
                 sv == save_all(ps2, f)
             IN  [exc |-> sv.exc, msg |-> sv.msg,
                  profiles |-> ps2, file |-> sv.file]

\* ProfileStorage.create_profile
StorageCreate(ps, f, user_id, name, age, role, now) ==
    IF Has(ps, user_id)
    THEN [exc |-> "ValueError", msg |-> ExistsMsg(user_id),
          profiles |-> ps, file |-> f]
    ELSE LET made == UserProfile(user_id, name, age, role, now)
         IN  IF made.exc # NoExc
             THEN [exc |-> made.exc, msg |-> made.msg, profiles |-> ps, file |-> f]
             ELSE LET ps2 == Append(ps, made.ret)
                      sv == save_all(ps2, f)
                  IN  [exc |-> sv.exc, msg |-> sv.msg,
                       profiles |-> ps2, file |-> sv.file]

\* ProfileStorage.get_profile: self.profiles.get(user_id); found is False
\* for the result None.
StorageGet(ps, user_id) ==
    IF Has(ps, user_id)
    THEN [found |-> TRUE, ret |-> ps[IndexOf(ps, user_id)]]
    ELSE [found |-> FALSE, ret |-> None]

\* update_profile that assigns every keyword it is given, created_at too.
StorageUpdate_AnyKeyword(ps, f, user_id, kw) ==
    IF ~Has(ps, user_id)
    THEN [exc |-> NoExc, msg |-> NoMsg, found |-> FALSE,
          profiles |-> ps, file |-> f]
    ELSE LET k == IndexOf(ps, user_id)
             p0 == IF "created_at" \in DOMAIN kw
                   THEN [ps[k] EXCEPT !.created_at = kw.created_at] ELSE ps[k]
             p1 == IF "name" \in DOMAIN kw
                   THEN [p0 EXCEPT !.name = kw.name] ELSE p0
             ageBad == "age" \in DOMAIN kw /\ ~AgeOk(kw.age)
             p2 == IF "age" \in DOMAIN kw
                   THEN [p1 EXCEPT !.age = kw.age] ELSE p1
             roleBad == /\ "role" \in DOMAIN kw
                        /\ IsStr(kw.role)
                        /\ UserRole(kw.role).exc # NoExc
             p3 == IF "role" \in DOMAIN kw
                   THEN [p2 EXCEPT !.role = IF IsStr(kw.role)
                                            THEN UserRole(kw.role).ret
                                            ELSE kw.role]
                   ELSE p2
         IN  IF ageBad
             THEN [exc |-> "ValueError", msg |-> AgeMsg, found |-> TRUE,
                   profiles |-> [ps EXCEPT ![k] = p1], file |-> f]
             ELSE IF roleBad
             THEN [exc |-> "ValueError", msg |-> UserRole(kw.role).msg,
                   found |-> TRUE,
                   profiles |-> [ps EXCEPT ![k] = p2], file |-> f]
             ELSE LET ps3 == [ps EXCEPT ![k] = p3]
                      sv == save_all(ps3, f)
                  IN  [exc |-> sv.exc, msg |-> sv.msg, found |-> TRUE,
                       profiles |-> ps3, file |-> sv.file]

\* ProfileStorage.update_profile.  The profile object is changed in place,
\* field by field, so what was assigned before an exception stays assigned;
\* save_all is reached only when nothing was raised.
StorageUpdate(ps, f, user_id, kw) ==
    IF ~Has(ps, user_id)
    THEN [exc |-> NoExc, msg |-> NoMsg, found |-> FALSE,
          profiles |-> ps, file |-> f]
    ELSE LET k == IndexOf(ps, user_id)
             p1 == IF "name" \in DOMAIN kw
                   THEN [ps[k] EXCEPT !.name = kw.name] ELSE ps[k]
             ageBad == "age" \in DOMAIN kw /\ ~AgeOk(kw.age)
             p2 == IF "age" \in DOMAIN kw
                   THEN [p1 EXCEPT !.age = kw.age] ELSE p1
             roleBad == /\ "role" \in DOMAIN kw
                        /\ IsStr(kw.role)
                        /\ UserRole(kw.role).exc # NoExc
             p3 == IF "role" \in DOMAIN kw
                   THEN [p2 EXCEPT !.role = IF IsStr(kw.role)
                                            THEN UserRole(kw.role).ret
                                            ELSE kw.role]
                   ELSE p2
         IN  IF ageBad
             THEN [exc |-> "ValueError", msg |-> AgeMsg, found |-> TRUE,
                   profiles |-> [ps EXCEPT ![k] = p1], file |-> f]
             ELSE IF roleBad
             THEN [exc |-> "ValueError", msg |-> UserRole(kw.role).msg,
                   found |-> TRUE,
                   profiles |-> [ps EXCEPT ![k] = p2], file |-> f]
             ELSE LET ps3 == [ps EXCEPT ![k] = p3]
                      sv == save_all(ps3, f)
                  IN  [exc |-> sv.exc, msg |-> sv.msg, found |-> TRUE,
                       profiles |-> ps3, file |-> sv.file]

\* ProfileStorage.delete_profile
StorageDelete(ps, f, user_id) ==
    IF Has(ps, user_id)
    THEN LET ps2 == Remove(ps, user_id)
             sv == save_all(ps2, f)
         IN  [exc |-> sv.exc, msg |-> sv.msg, found |-> TRUE,
              profiles |-> ps2, file |-> sv.file]
    ELSE [exc |-> NoExc, msg |-> NoMsg, found |-> FALSE,
          profiles |-> ps, file |-> f]

\* ProfileStorage.get_all_profiles
get_all_profiles(ps) == ps

RECURSIVE FilterRole(_, _)
FilterRole(ps, role) ==
    IF ps = <<>> THEN <<>>
    ELSE IF RoleValue(ps[1].role) = role
         THEN <<ps[1]>> \o FilterRole(Tail(ps), role)
         ELSE FilterRole(Tail(ps), role)

\* ProfileStorage.get_profiles_by_role: p.role.value is read of every
\* profile, AttributeError when one of them has no value.
get_profiles_by_role(ps, role) ==
    IF \E i \in 1..Len(ps) : ~HasValue(ps[i].role)
    THEN Raise("AttributeError", NoValueMsg)
    ELSE Return(FilterRole(ps, role))

\* ProfileStorage.add_activity_to_profile
StorageAddActivity(ps, f, user_id, a, now) ==
    IF ~Has(ps, user_id)
    THEN [exc |-> NoExc, msg |-> NoMsg, found |-> FALSE,
          profiles |-> ps, file |-> f]
    ELSE LET k == IndexOf(ps, user_id)
             ps2 == [ps EXCEPT ![k] =
                        add_activity(@, a.activity_type, a.duration_minutes,
                                     a.calories_burned, a.notes, now)]
             sv == save_all(ps2, f)
         IN  [exc |-> sv.exc, msg |-> sv.msg, found |-> TRUE,
              profiles |-> ps2, file |-> sv.file]

\* InMemoryProfileStorage: the dict alone, no backing file.
\* str(e) of the AttributeError a call of a method the class lacks raises.
NoMethodMsg(method) ==
    <<"'InMemoryProfileStorage' object has no attribute '", method, "'">>

\* InMemoryProfileStorage.create_profile
MemCreate(ps, user_id, name, age, role, now) ==
    IF Has(ps, user_id)
    THEN [exc |-> "ValueError", msg |-> ExistsMsg(user_id), profiles |-> ps]
    ELSE LET made == UserProfile(user_id, name, age, role, now)
         IN  IF made.exc # NoExc
             THEN [exc |-> made.exc, msg |-> made.msg, profiles |-> ps]
             ELSE [exc |-> NoExc, msg |-> NoMsg, profiles |-> Append(ps, made.ret)]

\* InMemoryProfileStorage.get_profile
MemGet(ps, user_id) ==
    IF Has(ps, user_id)
    THEN [found |-> TRUE, ret |-> ps[IndexOf(ps, user_id)]]
    ELSE [found |-> FALSE, ret |-> None]

\* InMemoryProfileStorage has no method update_profile.
MemUpdate(ps, user_id, kw) ==
    [exc |-> "AttributeError", msg |-> NoMethodMsg("update_profile"),
     found |-> FALSE, profiles |-> ps]

\* InMemoryProfileStorage.delete_profile
MemDelete(ps, user_id) ==
    IF Has(ps, user_id)
    THEN [exc |-> NoExc, msg |-> NoMsg, found |-> TRUE,
          profiles |-> Remove(ps, user_id)]
    ELSE [exc |-> NoExc, msg |-> NoMsg, found |-> FALSE, profiles |-> ps]

\* InMemoryProfileStorage.get_all_profiles
MemGetAll(ps) == ps

\* InMemoryProfileStorage has no method get_profiles_by_role.
MemByRole(ps, role) == Raise("AttributeError", NoMethodMsg("get_profiles_by_role"))

\* InMemoryProfileStorage.add_activity_to_profile
MemAddActivity(ps, user_id, a, now) ==
    IF ~Has(ps, user_id)
    THEN [exc |-> NoExc, msg |-> NoMsg, found |-> FALSE, profiles |-> ps]
    ELSE [exc |-> NoExc, msg |-> NoMsg, found |-> TRUE,
          profiles |-> [ps EXCEPT ![IndexOf(ps, user_id)] =
                           add_activity(@, a.activity_type, a.duration_minutes,
                                        a.calories_burned, a.notes, now)]]

\* ---------------------------------------------------------- serializers.py
\* UserProfileSerializer.serialize; AttributeError when the role has no value.
serialize(p) ==
    IF ~HasValue(p.role) THEN Raise("AttributeError", NoValueMsg)
    ELSE Return([user_id |-> p.user_id,
                 name |-> p.name,
                 age |-> p.age,
                 role |-> RoleValue(p.role),
                 created_at |-> isoformat(p.created_at),
                 activity_history |->
                    [i \in 1..Len(p.activity_history) |->
                        ActivityToDict(p.activity_history[i])],
                 stats |-> StatsBlock(p)])

ListView(p) ==
    [user_id |-> p.user_id,
     name |-> p.name,
     age |-> p.age,
     role |-> RoleValue(p.role),
     total_activities |-> get_total_activities(p),
     total_calories_burned |-> get_total_calories_burned(p)]

\* UserProfileSerializer.serialize_list_view
serialize_list_view(ps) ==
    IF \E i \in 1..Len(ps) : ~HasValue(ps[i].role)
    THEN Raise("AttributeError", NoValueMsg)
    ELSE Return([i \in 1..Len(ps) |-> ListView(ps[i])])

\* ---------------------------------------------------------------- views.py
\* APIResponse.success
Success(data, message, status_code) ==
    [success |-> TRUE, message |-> message, data |-> data,
     status_code |-> status_code]

\* APIResponse.error (the response has no data)
Error(message, status_code) ==
    [success |-> FALSE, message |-> message, status_code |-> status_code]

\* "except ValueError as e" and "except Exception as e" of create_profile,
\* update_profile and add_activity
Caught(exc, msg) ==
    IF exc = "ValueError" THEN Error(msg, 400)
    ELSE Error(<<"Internal server error: ">> \o msg, 500)

\* "except Exception as e" of the views that have no ValueError clause
CaughtAny(msg) == Error(<<"Internal server error: ">> \o msg, 500)

NotFoundMsg(user_id) == <<"Profile with user_id '", user_id, "' not found">>

\* What the variable last keeps of a call: the operation and, of its
\* response, the status_code and the message.
Log(op, response) ==
    [op |-> op, status_code |-> response.status_code, message |-> response.message]

\* The arguments the operations are called with.
UserIds == {"u1", "u2"}

CreateInputs ==
    [user_id : {"u1"}, name : {"Ann"}, age : {MinAge}, role : {"student"}]
    \cup [user_id : {"u2"}, name : {"Ann"}, age : {MaxAge}, role : {"gym_teacher"}]
    \cup [user_id : {""}, name : {"Ann"}, age : {MinAge}, role : {"student"}]
    \cup [user_id : {"u1"}, name : {""}, age : {MinAge}, role : {"student"}]
    \cup [user_id : {"u1"}, name : {"Ann"}, age : {MinAge - 1, MaxAge + 1},
          role : {"student"}]
    \cup [user_id : {"u1"}, name : {"Ann"}, age : {MinAge},
          role : {"Student", None}]

\* The keyword arguments update_profile is called with.
UpdateKwargs ==
    << [name |-> "Bob"],
       [name |-> ""],
       [age |-> MaxAge],
       [age |-> MaxAge + 1],
       [role |-> "gym_teacher"],
       [role |-> None],
       [name |-> "Bob", age |-> MaxAge + 1],
       [age |-> MaxAge, role |-> "teacher"],
       [name |-> "Bob", age |-> MaxAge, role |-> "gym_teacher"],
       [created_at |-> 99],
       <<>> >>

\* The calls of update_profile: every keyword set for u1, and for u2 a
\* rejected age and no keyword at all.
UpdateInputs ==
    [user_id : {"u1"}, k : 1..Len(UpdateKwargs)]
    \cup [user_id : {"u2"}, k : {4, 11}]

ActivityInputs ==
    [activity_type : {"run"}, duration_minutes : {30}, calories_burned : {300},
     notes : {""}]
    \cup [activity_type : {"swim"}, duration_minutes : {45},
          calories_burned : {351}, notes : {"am"}]
    \cup [activity_type : {""}, duration_minutes : {30}, calories_burned : {300},
          notes : {""}]
    \cup [activity_type : {"run"}, duration_minutes : {0},
          calories_burned : {300}, notes : {""}]
    \cup [activity_type : {"run"}, duration_minutes : {30}, calories_burned : {-1},
          notes : {""}]

ListRoles == {None, "", "student", "Student"}

\* The role texts the operation layer recognizes.
RecognizedRoles == {"student", "gym_teacher"}

\* The arguments create_profile must reject.
CreateInvalid(a) ==
    \/ a.user_id = ""
    \/ a.name = ""
    \/ a.age \notin MinAge..MaxAge
    \/ a.role \notin RecognizedRoles

\* The arguments add_activity must reject.
ActivityInvalid(a) ==
    \/ a.activity_type = ""
    \/ a.duration_minutes <= 0
    \/ a.calories_burned < 0

\* The calls of a valid request: arguments every validation accepts.
ValidCreate == {a \in CreateInputs : ~CreateInvalid(a)}

ValidActivity == {a \in ActivityInputs : ~ActivityInvalid(a)}

\* views.create_profile: the response and the storage it leaves; stamped
\* says whether datetime.now() was read.
CreateCall(ps, f, a, now) ==
    IF a.user_id = "" \/ a.name = ""
    THEN [response |-> Error(<<"user_id and name are required">>, 400),
          profiles |-> ps, file |-> f, stamped |-> FALSE]
    ELSE IF ~IsInt(a.age) \/ a.age < MinAge \/ a.age > MaxAge
    THEN [response |->
             Error(<<"age must be a valid integer between 0 and 150">>, 400),
          profiles |-> ps, file |-> f, stamped |-> FALSE]
    ELSE IF a.role \notin {"student", "gym_teacher"}
    THEN [response |-> Error(<<"role must be 'student' or 'gym_teacher'">>, 400),
          profiles |-> ps, file |-> f, stamped |-> FALSE]
    ELSE LET r == StorageCreate(ps, f, a.user_id, a.name, a.age, a.role, now)
             made == StorageGet(r.profiles, a.user_id).ret
         IN  [response |->
                 IF r.exc # NoExc THEN Caught(r.exc, r.msg)
                 ELSE IF serialize(made).exc # NoExc
                      THEN Caught(serialize(made).exc, serialize(made).msg)
                 ELSE Success(serialize(made).ret,
                              <<"Profile created successfully">>, 201),
              profiles |-> r.profiles, file |-> r.file,
              stamped |-> ~Has(ps, a.user_id)]

\* views.create_profile
create_profile(a) ==
    LET r == CreateCall(profiles, file, a, clock)
    IN  /\ r.stamped => clock < MaxClock
        /\ profiles' = r.profiles
        /\ file' = r.file
        /\ clock' = IF r.stamped THEN clock + 1 ELSE clock
        /\ last' = Log("create_profile", r.response)

\* views.get_profile, the response
GetProfileResponse(ps, user_id) ==
    LET g == StorageGet(ps, user_id)
    IN  IF ~g.found THEN Error(NotFoundMsg(user_id), 404)
        ELSE IF serialize(g.ret).exc # NoExc THEN CaughtAny(serialize(g.ret).msg)
        ELSE Success(serialize(g.ret).ret, <<"Profile retrieved successfully">>, 200)

\* views.get_profile
get_profile(user_id) ==
    /\ last' = Log("get_profile", GetProfileResponse(profiles, user_id))
    /\ UNCHANGED <<profiles, file, clock>>

\* views.update_profile: the response and the storage it leaves
UpdateCall(ps, f, user_id, kw) ==
    LET r == StorageUpdate(ps, f, user_id, kw)
        updated == StorageGet(r.profiles, user_id).ret
    IN  [response |->
            IF r.exc # NoExc THEN Caught(r.exc, r.msg)
            ELSE IF ~r.found THEN Error(NotFoundMsg(user_id), 404)
            ELSE IF serialize(updated).exc # NoExc
                 THEN Caught(serialize(updated).exc, serialize(updated).msg)
            ELSE Success(serialize(updated).ret,
                         <<"Profile updated successfully">>, 200),
         profiles |-> r.profiles, file |-> r.file]

\* views.update_profile
update_profile(user_id, kw) ==
    LET r == UpdateCall(profiles, file, user_id, kw)
    IN  /\ profiles' = r.profiles
        /\ file' = r.file
        /\ last' = Log("update_profile", r.response)
        /\ UNCHANGED clock

\* views.delete_profile: the response and the storage it leaves
DeleteCall(ps, f, user_id) ==
    LET r == StorageDelete(ps, f, user_id)
    IN  [response |->
            IF r.exc # NoExc THEN CaughtAny(r.msg)
            ELSE IF ~r.found THEN Error(NotFoundMsg(user_id), 404)
            ELSE Success(None, <<"Profile deleted successfully">>, 200),
         profiles |-> r.profiles, file |-> r.file]

\* views.delete_profile
delete_profile(user_id) ==
    LET r == DeleteCall(profiles, file, user_id)
    IN  /\ profiles' = r.profiles
        /\ file' = r.file
        /\ last' = Log("delete_profile", r.response)
        /\ UNCHANGED clock

\* "if role:" is False for None and for the empty text.
Truthy(role) == role # None /\ role # ""

RetrievedMsg(n) == <<"Retrieved ", ToString(n), " profile(s)">>

\* views.list_profiles, the response
ListProfilesResponse(ps, role) ==
    LET found == IF Truthy(role) THEN get_profiles_by_role(ps, role)
                 ELSE Return(get_all_profiles(ps))
    IN  IF Truthy(role) /\ role \notin {"student", "gym_teacher"}
        THEN Error(<<"Invalid role. Must be 'student' or 'gym_teacher'">>, 400)
        ELSE IF found.exc # NoExc THEN CaughtAny(found.msg)
        ELSE IF serialize_list_view(found.ret).exc # NoExc
             THEN CaughtAny(serialize_list_view(found.ret).msg)
        ELSE Success(serialize_list_view(found.ret).ret,
                     RetrievedMsg(Len(found.ret)), 200)

\* views.list_profiles
list_profiles(role) ==
    /\ last' = Log("list_profiles", ListProfilesResponse(profiles, role))
    /\ UNCHANGED <<profiles, file, clock>>

\* views.add_activity: the response and the storage it leaves; stamped says
\* whether datetime.now() was read.
AddActivityCall(ps, f, user_id, a, now) ==
    IF a.activity_type = ""
    THEN [response |-> Error(<<"activity_type is required">>, 400),
          profiles |-> ps, file |-> f, stamped |-> FALSE]
    ELSE IF ~IsInt(a.duration_minutes) \/ a.duration_minutes <= 0
    THEN [response |->
             Error(<<"duration_minutes must be a positive integer">>, 400),
          profiles |-> ps, file |-> f, stamped |-> FALSE]
    ELSE IF ~IsInt(a.calories_burned) \/ a.calories_burned < 0
    THEN [response |->
             Error(<<"calories_burned must be a non-negative integer">>, 400),
          profiles |-> ps, file |-> f, stamped |-> FALSE]
    ELSE LET r == StorageAddActivity(ps, f, user_id, a, now)
             profile == StorageGet(r.profiles, user_id).ret
         IN  [response |->
                 IF r.exc # NoExc THEN Caught(r.exc, r.msg)
                 ELSE IF ~r.found THEN Error(NotFoundMsg(user_id), 404)
                 ELSE IF serialize(profile).exc # NoExc
                      THEN Caught(serialize(profile).exc, serialize(profile).msg)
                 ELSE Success(serialize(profile).ret,
                              <<"Activity added successfully">>, 201),
              profiles |-> r.profiles, file |-> r.file, stamped |-> r.found]

\* views.add_activity
add_activity_view(user_id, a) ==
    LET r == AddActivityCall(profiles, file, user_id, a, clock)
    IN  /\ r.stamped => clock < MaxClock
        /\ profiles' = r.profiles
        /\ file' = r.file
        /\ clock' = IF r.stamped THEN clock + 1 ELSE clock
        /\ last' = Log("add_activity", r.response)

\* views.get_user_statistics, the response
GetUserStatisticsResponse(ps, user_id) ==
    LET g == StorageGet(ps, user_id)
    IN  IF ~g.found THEN Error(NotFoundMsg(user_id), 404)
        ELSE IF ~HasValue(g.ret.role) THEN CaughtAny(NoValueMsg)
        ELSE Success(
                [user_id |-> user_id,
                 name |-> g.ret.name,
                 role |-> RoleValue(g.ret.role),
                 total_activities |-> get_total_activities(g.ret),
                 total_activity_time_minutes |-> get_total_activity_time(g.ret),
                 total_calories_burned |-> get_total_calories_burned(g.ret),
                 average_calories_per_activity |->
                     IF get_total_activities(g.ret) > 0
                     THEN get_total_calories_burned(g.ret)
                              \div get_total_activities(g.ret)
                     ELSE 0],
                <<"Statistics retrieved successfully">>, 200)

\* views.get_user_statistics
get_user_statistics(user_id) ==
    /\ last' = Log("get_user_statistics",
                   GetUserStatisticsResponse(profiles, user_id))
    /\ UNCHANGED <<profiles, file, clock>>

\* A new storage instance on the same backing file, as the module-level
\* "storage = ProfileStorage()" at start-up and the tests' replacement of it.
Restart ==
    /\ profiles' = load_all(file, clock)
    /\ last' = [op |-> "restart", status_code |-> 0, message |-> NoMsg]
    /\ UNCHANGED <<file, clock>>

Init ==
    /\ profiles = <<>>
    /\ file \in {FileAbsent, FileCorrupt, FileJson(<<>>)}
    /\ clock = 0
    /\ last = [op |-> "init", status_code |-> 0, message |-> NoMsg]
    /\ writable = TRUE
    /\ other = <<>>

Next ==
    \/ \E a \in CreateInputs : create_profile(a) /\ UNCHANGED <<writable, other>>
    \/ \E u \in UserIds : get_profile(u) /\ UNCHANGED <<writable, other>>
    \/ \E c \in UpdateInputs :
          update_profile(c.user_id, UpdateKwargs[c.k]) /\ UNCHANGED <<writable, other>>
    \/ \E u \in UserIds : delete_profile(u) /\ UNCHANGED <<writable, other>>
    \/ \E r \in ListRoles : list_profiles(r) /\ UNCHANGED <<writable, other>>
    \/ \E u \in UserIds : \E a \in ActivityInputs :
          add_activity_view(u, a) /\ UNCHANGED <<writable, other>>
    \/ \E u \in UserIds : get_user_statistics(u) /\ UNCHANGED <<writable, other>>
    \/ Restart /\ UNCHANGED <<writable, other>>

Spec == Init /\ [][Next]_vars

\* ----------------------------------------------------------------- SpecBoot
\* The records a backing file can hold under the key user_id: records the
\* program wrote, and records with a field missing, null or of another
\* type.
GoodRecord(user_id) ==
    [user_id |-> user_id, name |-> "Ann", age |-> MinAge, role |-> "student",
     created_at |-> isoformat(5), activity_history |-> <<>>,
     stats |-> [total_activities |-> 0, total_activity_time_minutes |-> 0,
                total_calories_burned |-> 0]]

GoodActivity ==
    [activity_type |-> "run", duration_minutes |-> 30, calories_burned |-> 300,
     timestamp |-> isoformat(6), notes |-> ""]

BootRecords(user_id) ==
    { GoodRecord(user_id),
      [GoodRecord(user_id) EXCEPT !.role = "gym_teacher",
                                  !.activity_history = <<GoodActivity>>],
      [user_id |-> user_id, name |-> "Ann", age |-> MaxAge, role |-> "student"],
      [GoodRecord(user_id) EXCEPT !.age = MaxAge + 1],
      [user_id |-> user_id, name |-> "Ann", role |-> "student"],
      [GoodRecord(user_id) EXCEPT !.role = "coach"],
      [GoodRecord(user_id) EXCEPT !.role = None],
      [user_id |-> user_id, name |-> "Ann", age |-> MinAge],
      [user_id |-> user_id, age |-> MinAge, role |-> "student"],
      Scalar(5),
      [GoodRecord(user_id) EXCEPT !.created_at = [text |-> "yesterday"]],
      [GoodRecord(user_id) EXCEPT !.created_at = Scalar(5)],
      [GoodRecord(user_id) EXCEPT
          !.activity_history =
              <<GoodActivity, [GoodActivity EXCEPT !.timestamp = [text |-> "x"]]>>] }

BootFiles ==
    {FileAbsent, FileCorrupt, FileArray, FileJson(<<>>)}
    \cup {FileJson(<<r>>) : r \in BootRecords("u1")}
    \cup {FileJson(<<r1, r2>>) : r1 \in BootRecords("u1"), r2 \in BootRecords("u2")}

\* ProfileStorage(): message is empty when the constructor returns and the
\* exception with its text when it raises.
ProfileStorageInit ==
    LET r == LoadAll(file, clock)
    IN  /\ last.op = "init"
        /\ profiles' = r.profiles
        /\ last' = [op |-> "ProfileStorage", status_code |-> 0,
                    message |-> IF r.exc = NoExc THEN NoMsg ELSE <<r.exc>> \o r.msg]
        /\ UNCHANGED <<file, clock, writable, other>>

InitBoot ==
    /\ profiles = <<>>
    /\ file \in BootFiles
    /\ clock = 0
    /\ last = [op |-> "init", status_code |-> 0, message |-> NoMsg]
    /\ writable = TRUE
    /\ other = <<>>

NextBoot == ProfileStorageInit

SpecBoot == InitBoot /\ [][NextBoot]_vars

\* --------------------------------------------------------------- SpecModels
\* The entity layer called directly, as test_user_profile_model does:
\* profiles is the list of the objects in hand (at most one), file holds
\* the record to_dict returned last; message is empty when the call
\* returned and the exception with its text when it raised.
ModelInputs ==
    [user_id : {"u1"}, name : {"Ann"},
     age : {MinAge - 1, MinAge, MaxAge, MaxAge + 1},
     role : {"student", "gym_teacher", "Student", "", None}]

ModelActivities ==
    [activity_type : {"run"}, duration_minutes : {30}, calories_burned : {300},
     notes : {""}]
    \cup [activity_type : {"swim"}, duration_minutes : {45},
          calories_burned : {351}, notes : {"am"}]

Outcome(op, r) ==
    [op |-> op, status_code |-> 0,
     message |-> IF r.exc = NoExc THEN NoMsg ELSE <<r.exc>> \o r.msg]

\* UserProfile(user_id, name, age, role)
NewProfile(a) ==
    LET r == UserProfile(a.user_id, a.name, a.age, a.role, clock)
    IN  /\ r.exc = NoExc => clock < MaxModelClock
        /\ profiles' = IF r.exc = NoExc THEN <<r.ret>> ELSE profiles
        /\ clock' = IF r.exc = NoExc THEN clock + 1 ELSE clock
        /\ last' = Outcome("UserProfile", r)
        /\ UNCHANGED <<file, writable, other>>

\* profile.add_activity(...)
ModelAddActivity(a) ==
    /\ profiles # <<>>
    /\ clock < MaxModelClock
    /\ profiles' = <<add_activity(profiles[1], a.activity_type, a.duration_minutes,
                                  a.calories_burned, a.notes, clock)>>
    /\ clock' = clock + 1
    /\ last' = Outcome("add_activity", Return(None))
    /\ UNCHANGED <<file, writable, other>>

\* profile.to_dict()
ModelToDict ==
    /\ profiles # <<>>
    /\ IF HasValue(profiles[1].role)
       THEN /\ file' = FileJson(<<ToDict(profiles[1])>>)
            /\ last' = Outcome("to_dict", Return(None))
       ELSE /\ file' = file
            /\ last' = Outcome("to_dict", Raise("AttributeError", NoValueMsg))
    /\ UNCHANGED <<profiles, clock, writable, other>>

\* UserProfile.from_dict(record)
ModelFromDict ==
    /\ file.kind = "json"
    /\ Len(file.data) = 1
    /\ LET r == FromDict(file.data[1], clock)
       IN  /\ profiles' = IF r.exc = NoExc THEN <<r.ret>> ELSE profiles
           /\ last' = Outcome("from_dict", r)
    /\ UNCHANGED <<file, clock, writable, other>>

InitModels ==
    /\ profiles = <<>>
    /\ file = FileAbsent
    /\ clock = 0
    /\ last = [op |-> "init", status_code |-> 0, message |-> NoMsg]
    /\ writable = TRUE
    /\ other = <<>>

NextModels ==
    \/ \E a \in ModelInputs : NewProfile(a)
    \/ \E a \in ModelActivities : ModelAddActivity(a)
    \/ ModelToDict
    \/ ModelFromDict

SpecModels == InitModels /\ [][NextModels]_vars

\* ------------------------------------------------------------------ SpecTwo
\* A second ProfileStorage instance, other, opened on the same backing file
\* (a second process): the same operations, on its own dict.
peer_create_profile(a) ==
    LET r == CreateCall(other, file, a, clock)
    IN  /\ r.stamped => clock < MaxClock
        /\ other' = r.profiles
        /\ file' = r.file
        /\ clock' = IF r.stamped THEN clock + 1 ELSE clock
        /\ last' = Log("peer.create_profile", r.response)
        /\ UNCHANGED <<profiles, writable>>

peer_update_profile(user_id, kw) ==
    LET r == UpdateCall(other, file, user_id, kw)
    IN  /\ other' = r.profiles
        /\ file' = r.file
        /\ last' = Log("peer.update_profile", r.response)
        /\ UNCHANGED <<profiles, clock, writable>>

peer_delete_profile(user_id) ==
    LET r == DeleteCall(other, file, user_id)
    IN  /\ other' = r.profiles
        /\ file' = r.file
        /\ last' = Log("peer.delete_profile", r.response)
        /\ UNCHANGED <<profiles, clock, writable>>

peer_add_activity(user_id, a) ==
    LET r == AddActivityCall(other, file, user_id, a, clock)
    IN  /\ r.stamped => clock < MaxClock
        /\ other' = r.profiles
        /\ file' = r.file
        /\ clock' = IF r.stamped THEN clock + 1 ELSE clock
        /\ last' = Log("peer.add_activity", r.response)
        /\ UNCHANGED <<profiles, writable>>

\* The second process starts again: a new instance loaded from the file.
PeerRestart ==
    /\ other' = load_all(file, clock)
    /\ last' = [op |-> "peer.restart", status_code |-> 0, message |-> NoMsg]
    /\ UNCHANGED <<profiles, file, clock, writable>>

\* The requests of the two processes: valid ones.
TwoActivity ==
    [activity_type : {"run"}, duration_minutes : {30}, calories_burned : {300},
     notes : {""}]

TwoKwargs == [name |-> "Bob"]

InitTwo ==
    /\ profiles = <<>>
    /\ other = <<>>
    /\ file \in {FileAbsent, FileJson(<<>>)}
    /\ clock = 0
    /\ last = [op |-> "init", status_code |-> 0, message |-> NoMsg]
    /\ writable = TRUE

NextTwo ==
    \/ \E a \in ValidCreate : create_profile(a) /\ UNCHANGED <<writable, other>>
    \/ \E u \in UserIds : update_profile(u, TwoKwargs) /\ UNCHANGED <<writable, other>>
    \/ \E u \in UserIds : delete_profile(u) /\ UNCHANGED <<writable, other>>
    \/ \E u \in UserIds : \E a \in TwoActivity :
          add_activity_view(u, a) /\ UNCHANGED <<writable, other>>
    \/ Restart /\ UNCHANGED <<writable, other>>
    \/ \E a \in ValidCreate : peer_create_profile(a)
    \/ \E u \in UserIds : peer_update_profile(u, TwoKwargs)
    \/ \E u \in UserIds : peer_delete_profile(u)
    \/ \E u \in UserIds : \E a \in TwoActivity : peer_add_activity(u, a)
    \/ PeerRestart

SpecTwo == InitTwo /\ [][NextTwo]_vars

\* ------------------------------------------------------------------- SpecIO
\* The backing file stops or starts being writable (its permissions, the
\* disk), outside the program.
SetWritable(b) ==
    /\ writable # b
    /\ writable' = b
    /\ UNCHANGED <<profiles, file, clock, last, other>>

InitIO ==
    /\ profiles = <<>>
    /\ file \in {FileAbsent, FileJson(<<>>)}
    /\ clock = 0
    /\ last = [op |-> "init", status_code |-> 0, message |-> NoMsg]
    /\ writable = TRUE
    /\ other = <<>>

NextIO ==
    \/ \E a \in ValidCreate : create_profile(a) /\ UNCHANGED <<writable, other>>
    \/ \E u \in UserIds : get_profile(u) /\ UNCHANGED <<writable, other>>
    \/ \E u \in UserIds : update_profile(u, TwoKwargs) /\ UNCHANGED <<writable, other>>
    \/ \E u \in UserIds : delete_profile(u) /\ UNCHANGED <<writable, other>>
    \/ \E u \in UserIds : \E a \in TwoActivity :
          add_activity_view(u, a) /\ UNCHANGED <<writable, other>>
    \/ Restart /\ UNCHANGED <<writable, other>>
    \/ \E b \in BOOLEAN : SetWritable(b)

SpecIO == InitIO /\ [][NextIO]_vars

\* ------------------------------------------------------------------ claims
Profile(user_id) == profiles[IndexOf(profiles, user_id)]

MutatingOps == {"create_profile", "update_profile", "delete_profile", "add_activity"}

\* C1: a create_profile call for a user_id that is already in the collection
\* raises ValueError in the storage layer, is answered 400, and leaves the
\* collection (hence the stored profile) and the backing file as they were.
C1_DuplicateCreateRejected ==
    [][last'.op = "create_profile" => \A a \in CreateInputs :
          (Has(profiles, a.user_id) /\ create_profile(a)) =>
              /\ StorageCreate(profiles, file, a.user_id, a.name, a.age, a.role,
                               clock).exc = "ValueError"
              /\ last'.status_code = 400
              /\ profiles' = profiles
              /\ file' = file]_vars

\* A duplicate create of u1 was just rejected while u1 holds an activity.
C1_Witness ==
    /\ last = [op |-> "create_profile", status_code |-> 400,
               message |-> ExistsMsg("u1")]
    /\ Has(profiles, "u1")
    /\ Len(Profile("u1").activity_history) = 1

\* C2: after every successful create, update, delete or add-activity call,
\* a storage instance loaded from the backing file holds the collection of
\* the running instance: the same profiles in the same order, with the same
\* name, age, role, created_at and activity history, timestamps included.
C2_Durability ==
    (last.op \in MutatingOps /\ last.status_code \in {200, 201}) =>
        load_all(file, clock) = profiles

\* An activity was just added and the file holds the profile with it.
C2_Witness ==
    /\ last.op = "add_activity"
    /\ last.status_code = 201
    /\ Len(profiles) = 1
    /\ Len(profiles[1].activity_history) = 1
    /\ file.kind = "json"
    /\ Len(file.data) = 1
    /\ Len(file.data[1].activity_history) = 1

\* C3: every stored profile has an age in [0,150] and a role that is one of
\* the two recognized values.
C3_AgeAndRoleValid ==
    \A i \in 1..Len(profiles) :
        /\ profiles[i].age \in MinAge..MaxAge
        /\ profiles[i].role \in UserRoleMembers

\* C4: create_profile answers 400 and leaves the collection and the file
\* unchanged when user_id or name is empty, the age is outside [0,150] or
\* the role is not recognized; with valid arguments and a user_id not yet
\* present it answers 201 and the collection gains exactly that profile,
\* with an empty activity history.
C4_CreateValidation ==
    [][last'.op = "create_profile" => \A a \in CreateInputs :
          create_profile(a) =>
              /\ CreateInvalid(a) =>
                    /\ last'.status_code = 400
                    /\ profiles' = profiles
                    /\ file' = file
              /\ (~CreateInvalid(a) /\ ~Has(profiles, a.user_id)) =>
                    /\ last'.status_code = 201
                    /\ Len(profiles') = Len(profiles) + 1
                    /\ SubSeq(profiles', 1, Len(profiles)) = profiles
                    /\ profiles'[Len(profiles')].user_id = a.user_id
                    /\ profiles'[Len(profiles')].name = a.name
                    /\ profiles'[Len(profiles')].age = a.age
                    /\ profiles'[Len(profiles')].role = UserRole(a.role).ret
                    /\ profiles'[Len(profiles')].activity_history = <<>>]_vars

\* C5: an update_profile call answered 200 changes, of the target profile,
\* only those of name, age and role that were supplied, to the supplied
\* values; user_id, created_at and the activity history of the target and
\* every other profile stay as they were, whatever other keyword is given.
C5_UpdateChangesOnlySupplied ==
    [][(last'.op = "update_profile" /\ last'.status_code = 200) =>
       \A c \in UpdateInputs :
          update_profile(c.user_id, UpdateKwargs[c.k]) =>
              LET kw == UpdateKwargs[c.k]
              IN  /\ Len(profiles') = Len(profiles)
                  /\ \A i \in 1..Len(profiles) :
                        IF profiles[i].user_id # c.user_id
                        THEN profiles'[i] = profiles[i]
                        ELSE /\ profiles'[i].user_id = profiles[i].user_id
                             /\ profiles'[i].created_at = profiles[i].created_at
                             /\ profiles'[i].activity_history =
                                    profiles[i].activity_history
                             /\ profiles'[i].name =
                                    IF "name" \in DOMAIN kw THEN kw.name
                                    ELSE profiles[i].name
                             /\ profiles'[i].age =
                                    IF "age" \in DOMAIN kw THEN kw.age
                                    ELSE profiles[i].age
                             /\ profiles'[i].role =
                                    IF "role" \in DOMAIN kw
                                    THEN UserRole(kw.role).ret
                                    ELSE profiles[i].role]_vars

\* u1 was just given a new name, age and role while u2 is stored next to it.
C5_Witness ==
    /\ last.op = "update_profile"
    /\ last.status_code = 200
    /\ Len(profiles) = 2
    /\ profiles[1].user_id = "u1"
    /\ profiles[1].name = "Bob"
    /\ profiles[1].age = MaxAge
    /\ profiles[1].role = GYM_TEACHER
    /\ profiles[2].user_id = "u2"

\* C6: update_profile answers 404 and changes nothing for an unknown
\* user_id; 400 when a supplied age is outside [0,150] or a supplied role
\* is not a recognized value; 200 otherwise.
C6_UpdateStatus ==
    [][last'.op = "update_profile" => \A c \in UpdateInputs :
          update_profile(c.user_id, UpdateKwargs[c.k]) =>
              LET kw == UpdateKwargs[c.k]
                  bad == \/ "age" \in DOMAIN kw /\ kw.age \notin MinAge..MaxAge
                         \/ "role" \in DOMAIN kw /\ kw.role \notin RecognizedRoles
              IN  IF ~Has(profiles, c.user_id)
                  THEN /\ last'.status_code = 404
                       /\ profiles' = profiles
                       /\ file' = file
                  ELSE last'.status_code = IF bad THEN 400 ELSE 200]_vars

\* C7: add_activity answers 400 and leaves storage unchanged for an empty
\* activity_type, a duration that is not positive or negative calories,
\* also for an unknown user_id; 404 and storage unchanged for valid input
\* and an unknown user_id; otherwise 201, and the history of the target is
\* longer by exactly one entry with the given type, duration, calories and
\* notes.
C7_AddActivityStatus ==
    [][last'.op = "add_activity" => \A u \in UserIds : \A a \in ActivityInputs :
          add_activity_view(u, a) =>
              IF ActivityInvalid(a)
              THEN /\ last'.status_code = 400
                   /\ profiles' = profiles
                   /\ file' = file
              ELSE IF ~Has(profiles, u)
              THEN /\ last'.status_code = 404
                   /\ profiles' = profiles
                   /\ file' = file
              ELSE LET old == profiles[IndexOf(profiles, u)].activity_history
                       new == profiles'[IndexOf(profiles, u)].activity_history
                   IN  /\ last'.status_code = 201
                       /\ Len(new) = Len(old) + 1
                       /\ SubSeq(new, 1, Len(old)) = old
                       /\ new[Len(new)].activity_type = a.activity_type
                       /\ new[Len(new)].duration_minutes = a.duration_minutes
                       /\ new[Len(new)].calories_burned = a.calories_burned
                       /\ new[Len(new)].notes = a.notes]_vars

\* C8: for every stored profile get_user_statistics answers 200 with
\* total_activities the number of history entries, total_activity_time_minutes
\* and total_calories_burned the sums of their durations and calories, and
\* average_calories_per_activity the truncated quotient of the two, 0 when
\* the profile has no activity.
C8_StatsCorrect ==
    \A i \in 1..Len(profiles) :
        LET p == profiles[i]
            r == GetUserStatisticsResponse(profiles, p.user_id)
            n == Len(p.activity_history)
        IN  /\ r.status_code = 200
            /\ r.data.total_activities = n
            /\ r.data.total_activity_time_minutes = SumDuration(p.activity_history)
            /\ r.data.total_calories_burned = SumCalories(p.activity_history)
            /\ n = 0 => r.data.average_calories_per_activity = 0
            /\ n > 0 =>
                  /\ n * r.data.average_calories_per_activity
                        <= SumCalories(p.activity_history)
                  /\ SumCalories(p.activity_history)
                        < n * (r.data.average_calories_per_activity + 1)

\* The user_ids of the profiles whose role is the given text, in the order
\* of the collection.
RECURSIVE IdsWithRole(_, _)
IdsWithRole(ps, role) ==
    IF ps = <<>> THEN <<>>
    ELSE IF HasValue(ps[1].role) /\ RoleValue(ps[1].role) = role
         THEN <<ps[1].user_id>> \o IdsWithRole(Tail(ps), role)
         ELSE IdsWithRole(Tail(ps), role)

\* C9: list_profiles with role student or gym_teacher answers 200 with
\* exactly the profiles whose current role is that role, in the order they
\* have in the collection, also when there is none.
C9_FilterCorrect ==
    \A role \in RecognizedRoles :
        LET r == ListProfilesResponse(profiles, role)
        IN  /\ r.status_code = 200
            /\ [i \in 1..Len(r.data) |-> r.data[i].user_id]
                  = IdsWithRole(profiles, role)
            /\ \A i \in 1..Len(r.data) : r.data[i].role = role

\* C10: list_profiles answers 400 for every supplied role that is not
\* student or gym_teacher, the empty text and text in the wrong case
\* included.
C10_UnrecognizedRoleRejected ==
    \A role \in ListRoles :
        (role # None /\ role \notin RecognizedRoles) =>
            ListProfilesResponse(profiles, role).status_code = 400

\* C11: delete_profile on a present user_id answers 200, removes exactly
\* that profile and persists the removal; on an absent user_id it answers
\* 404 and changes nothing.  While a user_id is absent, get_profile,
\* get_user_statistics, update_profile, add_activity with valid input and
\* delete_profile all answer 404 for it, and a user_id that was absent is
\* present again only after a create_profile call answered 201.
C11_DeleteThenGet ==
    [][/\ last'.op = "delete_profile" => \A u \in UserIds :
             delete_profile(u) =>
                 IF Has(profiles, u)
                 THEN /\ last'.status_code = 200
                      /\ profiles' = Remove(profiles, u)
                      /\ load_all(file', clock) = profiles'
                 ELSE /\ last'.status_code = 404
                      /\ profiles' = profiles
                      /\ file' = file
       /\ \A u \in UserIds : ~Has(profiles', u) =>
             /\ GetProfileResponse(profiles', u).status_code = 404
             /\ GetUserStatisticsResponse(profiles', u).status_code = 404
             /\ \A k \in 1..Len(UpdateKwargs) :
                   UpdateCall(profiles', file', u, UpdateKwargs[k])
                       .response.status_code = 404
             /\ \A a \in ValidActivity :
                   AddActivityCall(profiles', file', u, a, clock')
                       .response.status_code = 404
             /\ DeleteCall(profiles', file', u).response.status_code = 404
       /\ \A u \in UserIds : (~Has(profiles, u) /\ Has(profiles', u)) =>
             /\ last'.op = "create_profile"
             /\ last'.status_code = 201]_vars

\* A record that can be reconstructed into a valid profile: an object with
\* an age in [0,150], a recognized role and timestamps in the format the
\* program writes.
ValidRecord(r) ==
    /\ IsObject(r)
    /\ "age" \in DOMAIN r
    /\ r.age \in MinAge..MaxAge
    /\ Get(r, "role") \in RecognizedRoles
    /\ "created_at" \in DOMAIN r => FromIsoExc(r.created_at) = NoExc
    /\ "activity_history" \in DOMAIN r =>
          \A i \in 1..Len(r.activity_history) : ~BadTimestamp(r, i)

\* C12: the constructor of the durable storage never raises, whatever the
\* backing file holds; the collection is empty when the file is absent,
\* and empty when the file is not JSON, is JSON that is not an object, or
\* has a record that cannot be reconstructed into a valid profile.
C12_BootNeverFails ==
    last.op = "ProfileStorage" =>
        /\ last.message = NoMsg
        /\ file.kind = "absent" => profiles = <<>>
        /\ file.kind \in {"corrupt", "array"} => profiles = <<>>
        /\ (\E i \in 1..Len(file.data) : ~ValidRecord(file.data[i])) =>
              profiles = <<>>

StatusCodes == {200, 201, 400, 404, 500}

\* A response of the operation layer: a status_code of the five, success
\* exactly for 200 and 201.
WellFormed(response) ==
    /\ response.status_code \in StatusCodes
    /\ response.success <=> response.status_code \in {200, 201}

\* The keyword sets of a valid update: no age outside [0,150], no role
\* that is not a recognized text.
ValidUpdate ==
    {k \in 1..Len(UpdateKwargs) :
        /\ "age" \in DOMAIN UpdateKwargs[k] =>
              UpdateKwargs[k].age \in MinAge..MaxAge
        /\ "role" \in DOMAIN UpdateKwargs[k] =>
              UpdateKwargs[k].role \in RecognizedRoles}

\* 200 (or created) when the user_id is present, 404 when it is not.
Normal(ps, user_id, created) == IF Has(ps, user_id) THEN created ELSE 404

\* C13: in every reachable state every operation answers every argument
\* with a response whose status_code is one of 200, 201, 400, 404, 500 and
\* whose success is true exactly for 200 and 201; and whatever requests
\* came before, a valid request gets its normal answer: 201 for a create
\* of an absent user_id and for an activity of a present one, 200 for
\* get, update, delete and statistics of a present user_id and for a list
\* with no role or a recognized one, 404 for an absent user_id.
C13_NoFailurePropagates ==
    /\ \A a \in CreateInputs :
          WellFormed(CreateCall(profiles, file, a, clock).response)
    /\ \A c \in UpdateInputs :
          WellFormed(UpdateCall(profiles, file, c.user_id, UpdateKwargs[c.k]).response)
    /\ \A r \in ListRoles : WellFormed(ListProfilesResponse(profiles, r))
    /\ \A u \in UserIds :
          /\ WellFormed(GetProfileResponse(profiles, u))
          /\ WellFormed(DeleteCall(profiles, file, u).response)
          /\ WellFormed(GetUserStatisticsResponse(profiles, u))
          /\ \A a \in ActivityInputs :
                WellFormed(AddActivityCall(profiles, file, u, a, clock).response)
    /\ \A a \in ValidCreate : ~Has(profiles, a.user_id) =>
          CreateCall(profiles, file, a, clock).response.status_code = 201
    /\ \A r \in {None} \cup RecognizedRoles :
          ListProfilesResponse(profiles, r).status_code = 200
    /\ \A u \in UserIds :
          /\ GetProfileResponse(profiles, u).status_code = Normal(profiles, u, 200)
          /\ DeleteCall(profiles, file, u).response.status_code
                = Normal(profiles, u, 200)
          /\ GetUserStatisticsResponse(profiles, u).status_code
                = Normal(profiles, u, 200)
          /\ \A k \in ValidUpdate :
                UpdateCall(profiles, file, u, UpdateKwargs[k]).response.status_code
                    = Normal(profiles, u, 200)
          /\ \A a \in ValidActivity :
                AddActivityCall(profiles, file, u, a, clock).response.status_code
                    = Normal(profiles, u, 201)

\* C14: from the same collection, every operation of the storage contract
\* is accepted by the durable and by the in-memory variant with the same
\* outcome (the same exception or the same result) and leaves the same
\* collection in both.
C14_VariantsInterchangeable ==
    /\ \A a \in CreateInputs :
          LET d == StorageCreate(profiles, file, a.user_id, a.name, a.age, a.role,
                                 clock)
              m == MemCreate(profiles, a.user_id, a.name, a.age, a.role, clock)
          IN  d.exc = m.exc /\ d.msg = m.msg /\ d.profiles = m.profiles
    /\ \A u \in UserIds : StorageGet(profiles, u) = MemGet(profiles, u)
    /\ \A c \in UpdateInputs :
          LET d == StorageUpdate(profiles, file, c.user_id, UpdateKwargs[c.k])
              m == MemUpdate(profiles, c.user_id, UpdateKwargs[c.k])
          IN  d.exc = m.exc /\ d.found = m.found /\ d.profiles = m.profiles
    /\ \A u \in UserIds :
          LET d == StorageDelete(profiles, file, u)
              m == MemDelete(profiles, u)
          IN  d.exc = m.exc /\ d.found = m.found /\ d.profiles = m.profiles
    /\ get_all_profiles(profiles) = MemGetAll(profiles)
    /\ \A r \in RecognizedRoles :
          LET d == get_profiles_by_role(profiles, r)
              m == MemByRole(profiles, r)
          IN  d.exc = m.exc /\ (d.exc = NoExc => d.ret = m.ret)
    /\ \A u \in UserIds : \A a \in ActivityInputs :
          LET d == StorageAddActivity(profiles, file, u, a, clock)
              m == MemAddActivity(profiles, u, a, clock)
          IN  d.exc = m.exc /\ d.found = m.found /\ d.profiles = m.profiles

PeerMutatingOps ==
    {"peer.create_profile", "peer.update_profile", "peer.delete_profile",
     "peer.add_activity"}

\* C15: with two storage instances on one backing file, the file after a
\* successful mutation holds the collection of the instance that made it
\* and nothing else, whatever the other instance had written: what only
\* the other instance holds is lost from the file, and the call is answered
\* 200 or 201 all the same.
C15_LastWriterWins ==
    /\ (last.op \in MutatingOps /\ last.status_code \in {200, 201}) =>
          load_all(file, clock) = profiles
    /\ (last.op \in PeerMutatingOps /\ last.status_code \in {200, 201}) =>
          load_all(file, clock) = other

\* The first instance holds u1 with an activity it added (answered 201);
\* the second instance, which had loaded u1 before the activity, has just
\* been answered 200 or 201 for a mutation, and the backing file holds the
\* same u1 without the activity.
C15_Witness ==
    /\ last.op \in PeerMutatingOps
    /\ last.status_code \in {200, 201}
    /\ Has(profiles, "u1")
    /\ Len(Profile("u1").activity_history) = 1
    /\ \E i \in 1..Len(file.data) :
          /\ file.data[i].user_id = "u1"
          /\ file.data[i].created_at = isoformat(Profile("u1").created_at)
          /\ file.data[i].activity_history = <<>>

\* A stats block no history of the model sums to.
OtherStats ==
    [total_activities |-> 7, total_activity_time_minutes |-> 7,
     total_calories_burned |-> 7]

\* C16: for every profile with an age in [0,150] and a recognized role,
\* from_dict of its to_dict record raises nothing and returns a profile
\* with the same user_id, name, age, role, created_at and the same
\* activities in the same order, timestamps included, whenever it is
\* decoded; the stats block of the record is not read.
C16_RoundTrip ==
    \A i \in 1..Len(profiles) :
        HasValue(profiles[i].role) =>
            /\ FromDict(ToDict(profiles[i]), clock) = Return(profiles[i])
            /\ FromDict([ToDict(profiles[i]) EXCEPT !.stats = OtherStats], clock)
                  = Return(profiles[i])

\* from_dict has just returned a profile with two activities logged at
\* different times, later than both.
C16_Witness ==
    /\ last = [op |-> "from_dict", status_code |-> 0, message |-> NoMsg]
    /\ Len(profiles) = 1
    /\ Len(profiles[1].activity_history) = 2
    /\ profiles[1].created_at < profiles[1].activity_history[1].timestamp
    /\ profiles[1].activity_history[1].timestamp
          < profiles[1].activity_history[2].timestamp
    /\ profiles[1].activity_history[2].timestamp < clock
    /\ file = FileJson(<<ToDict(profiles[1])>>)

\* C17: UserProfile(user_id, name, age, role) with an age in [0,150] and
\* a role of student, gym_teacher returns a profile with these fields and
\* no activity; with an age outside [0,150] or any other role value it
\* raises ValueError and no profile results.
C17_ConstructionFailFast ==
    [][last'.op = "UserProfile" => \A a \in ModelInputs :
          NewProfile(a) =>
              IF a.age \in MinAge..MaxAge /\ a.role \in RecognizedRoles
              THEN /\ last'.message = NoMsg
                   /\ Len(profiles') = 1
                   /\ profiles'[1].user_id = a.user_id
                   /\ profiles'[1].name = a.name
                   /\ profiles'[1].age = a.age
                   /\ profiles'[1].role = UserRole(a.role).ret
                   /\ get_total_activities(profiles'[1]) = 0
              ELSE /\ last'.message # NoMsg
                   /\ last'.message[1] = "ValueError"
                   /\ profiles' = profiles]_vars

IsPrefix(s, t) == Len(s) <= Len(t) /\ SubSeq(t, 1, Len(s)) = s

\* C18: across every step that keeps a profile in the collection (a call
\* of any operation, or a restart of the storage from the backing file),
\* the activity history the profile had is a prefix of the one it has:
\* entries are only appended, none is removed, moved or changed.
C18_HistoryAppendOnly ==
    [][\A u \in UserIds : (Has(profiles, u) /\ Has(profiles', u)) =>
          IsPrefix(Profile(u).activity_history,
                   profiles'[IndexOf(profiles', u)].activity_history)]_vars

\* C19: an update_profile call answered 400 leaves the name, age and role
\* of the target profile, the rest of the collection and the backing file
\* as they were before the call, also when the call supplied a valid
\* field next to the rejected one.
C19_FailedUpdateAtomic ==
    [][(last'.op = "update_profile" /\ last'.status_code = 400) =>
       \A c \in UpdateInputs :
          update_profile(c.user_id, UpdateKwargs[c.k]) =>
              /\ profiles' = profiles
              /\ file' = file]_vars

\* C20: a create_profile, update_profile, delete_profile or add_activity
\* call answered 500 because the backing file could not be written leaves
\* the collection as it was, so that the collection still is what the
\* file holds; after such a create_profile the user_id is absent,
\* get_profile answers 404 for it and the same create_profile is not
\* rejected as a duplicate.
C20_FailedPersistNoEffect ==
    [][(last'.op \in MutatingOps /\ last'.status_code = 500) =>
          /\ profiles' = profiles
          /\ load_all(file', clock') = profiles'
          /\ \A a \in ValidCreate : create_profile(a) =>
                /\ ~Has(profiles', a.user_id)
                /\ GetProfileResponse(profiles', a.user_id).status_code = 404
                /\ CreateCall(profiles', file', a, clock').response.message
                      # ExistsMsg(a.user_id)]_vars

\* C21: every stored profile has a user_id and a name that are not the
\* empty text, whatever calls of the operation layer were made since the
\* collection was empty.
C21_NameNeverEmpty ==
    \A i \in 1..Len(profiles) :
        /\ profiles[i].user_id # ""
        /\ profiles[i].name # ""

====
